---- MODULE Spec2Model ----
(***************************************************************************)
(* Model of main.py of zepp-extractor: the batch loop of main, the         *)
(* decoders parse_times / parse_hr / parse_pace and the metrics pipeline   *)
(* of process_workout (heart-rate reconstruction, variance, zone           *)
(* classification, effort/rest segmentation).                              *)
(*                                                                         *)
(* Raw strings are sequences of one-character strings.  Python floats that *)
(* hold integers are integers here; a decoded pace is held in hundredths   *)
(* (the pace inputs carry at most two decimals); a quotient a / b is the   *)
(* record [num |-> a, den |-> b].                                          *)
(***************************************************************************)
EXTENDS Integers, Sequences, FiniteSets, TLC

VARIABLES pc, n, i, frame, exported, warned, raised, args, ret

vars == <<pc, n, i, frame, exported, warned, raised, args, ret>>

\* Python's None where a raw string is expected (a JSON null).
None == <<"None">>

\* No call of process_workout yet; no function call in progress.
NoFrame == [outcome |-> "none"]

NoCall == [fn |-> "none"]

----------------------------------------------------------------------------
(* Bounds of the model.                                                    *)

MaxBatch == 3
MaxRawLen == 5
MaxHrLen == 5
MaxTarget == 5
MaxPaceLen == 6
MaxSamples == 3

----------------------------------------------------------------------------
(* Sequence helpers.                                                       *)

Range(s) == {s[k] : k \in DOMAIN s}

RECURSIVE SumSeq(_)
SumSeq(s) == IF s = <<>> THEN 0 ELSE Head(s) + SumSeq(Tail(s))

RECURSIVE Flatten(_)
Flatten(ss) == IF ss = <<>> THEN <<>> ELSE Head(ss) \o Flatten(Tail(ss))

Min2(a, b) == IF a <= b THEN a ELSE b

\* s[:k] for k >= 0.
Prefix(s, k) == SubSeq(s, 1, Min2(k, Len(s)))

\* [x] * k.
Repeat(x, k) == [j \in 1..k |-> x]

SeqsUpTo(S, k) == UNION {[1..m -> S] : m \in 0..k}

----------------------------------------------------------------------------
(* str.split, str.strip, str.replace, int() and float() on the alphabet of *)
(* the model.                                                              *)

Digits == {"0", "1", "2", "3", "4", "5", "6", "7", "8", "9"}

DigitVal(c) == CASE c = "0" -> 0 [] c = "1" -> 1 [] c = "2" -> 2 [] c = "3" -> 3
                 [] c = "4" -> 4 [] c = "5" -> 5 [] c = "6" -> 6 [] c = "7" -> 7
                 [] c = "8" -> 8 [] c = "9" -> 9

RECURSIVE SplitFrom(_, _, _, _)
SplitFrom(s, sep, k, cur) ==
  IF k > Len(s) THEN <<cur>>
  ELSE IF s[k] = sep THEN <<cur>> \o SplitFrom(s, sep, k + 1, <<>>)
  ELSE SplitFrom(s, sep, k + 1, Append(cur, s[k]))

\* s.split(sep): one more segment than there are separators.
split(s, sep) == SplitFrom(s, sep, 1, <<>>)

RECURSIVE lstrip(_)
lstrip(s) == IF s # <<>> /\ Head(s) = " " THEN lstrip(Tail(s)) ELSE s

RECURSIVE rstrip(_)
rstrip(s) == IF s # <<>> /\ s[Len(s)] = " " THEN rstrip(SubSeq(s, 1, Len(s) - 1)) ELSE s

strip(s) == rstrip(lstrip(s))

replace(s, old, new) == [k \in DOMAIN s |-> IF s[k] = old THEN new ELSE s[k]]

RECURSIVE DecimalVal(_)
DecimalVal(ds) ==
  IF ds = <<>> THEN 0 ELSE 10 * DecimalVal(SubSeq(ds, 1, Len(ds) - 1)) + DigitVal(ds[Len(ds)])

Unsigned(t) == IF t # <<>> /\ Head(t) = "-" THEN Tail(t) ELSE t

Sign(t) == IF t # <<>> /\ Head(t) = "-" THEN -1 ELSE 1

\* int(tok) succeeds: surrounding blanks, an optional sign, one digit or more.
IsInt(tok) ==
  LET u == Unsigned(strip(tok)) IN u # <<>> /\ \A k \in DOMAIN u : u[k] \in Digits

IntVal(tok) == LET t == strip(tok) IN Sign(t) * DecimalVal(Unsigned(t))

\* float(tok) succeeds: an optional sign, digits with at most one period,
\* one digit at least.
IsFloat(tok) ==
  LET u == Unsigned(strip(tok)) IN
    /\ \A k \in DOMAIN u : u[k] \in Digits \cup {"."}
    /\ Cardinality({k \in DOMAIN u : u[k] = "."}) <= 1
    /\ \E k \in DOMAIN u : u[k] \in Digits

\* float(tok), in hundredths.
FloatVal(tok) ==
  LET t == strip(tok)
      parts == split(Unsigned(t), ".")
      whole == parts[1]
      frac == IF Len(parts) > 1 THEN parts[2] ELSE <<>>
      cents == IF Len(frac) = 0 THEN 0
               ELSE IF Len(frac) = 1 THEN 10 * DigitVal(frac[1])
               ELSE 10 * DigitVal(frac[1]) + DigitVal(frac[2])
  IN Sign(t) * (100 * DecimalVal(whole) + cents)

----------------------------------------------------------------------------
(* The decoders.                                                           *)

NonBlank(seg) == strip(seg) # <<>>

NonEmpty(seg) == seg # <<>>

StripAll(segs) == [k \in DOMAIN segs |-> strip(segs[k])]

\* parse_times: a null "time" field raises AttributeError (the caller sees it).
parse_times(t_str) == StripAll(SelectSeq(split(t_str, ";"), NonBlank))

\* What parse_hr appends for one segment.
hr_of_segment_keep(segment) ==
  LET parts == split(segment, ",") IN
    IF Len(parts) > 1
      THEN <<IF IsInt(parts[2]) THEN IntVal(parts[2]) ELSE 0>>
      ELSE <<0>>

hr_of_segment(segment) ==
  LET parts == split(segment, ",") IN
    IF Len(parts) > 1
      THEN <<IF IsInt(parts[2]) THEN IntVal(parts[2]) ELSE 0>>
      ELSE <<>>

parse_hr(hr_str) ==
  IF hr_str = None \/ hr_str = <<>> THEN <<>>
  ELSE LET segments == SelectSeq(split(hr_str, ";"), NonEmpty)
       IN Flatten([k \in DOMAIN segments |-> hr_of_segment(segments[k])])

parse_pace(p_str) == StripAll(SelectSeq(split(replace(p_str, ",", "."), ";"), NonBlank))

----------------------------------------------------------------------------
(* process_workout: heart-rate reconstruction.                             *)

DefaultBaseHr == 70

base_hr(hr_values) == IF hr_values # <<>> THEN hr_values[1] ELSE DefaultBaseHr

hr_differences(hr_values) == IF Len(hr_values) > 1 THEN Tail(hr_values) ELSE <<>>

\* The running totals: base, base + d1, base + d1 + d2, ...
RECURSIVE Accumulate(_, _)
Accumulate(cumulative, diffs) ==
  IF diffs = <<>> THEN <<cumulative>>
  ELSE <<cumulative>> \o Accumulate(cumulative + Head(diffs), Tail(diffs))

current_hr_pad_base(hr_values, num_points) ==
  LET unpadded == Accumulate(base_hr(hr_values), hr_differences(hr_values))
  IN Prefix(unpadded \o Repeat(unpadded[1], num_points), num_points)

current_hr_of(hr_values, num_points) ==
  LET unpadded == Accumulate(base_hr(hr_values), hr_differences(hr_values))
  IN Prefix(unpadded \o Repeat(unpadded[Len(unpadded)], num_points), num_points)

hr_variations_untruncated(hr_values, num_points) == <<0>> \o hr_differences(hr_values)

hr_variations_of(hr_values, num_points) ==
  Prefix(<<0>> \o hr_differences(hr_values), num_points)

----------------------------------------------------------------------------
(* process_workout: pace conversion.                                       *)

pace_per_token(raw_paces, num_points) ==
  LET toks == Prefix(raw_paces, num_points)
  IN [k \in DOMAIN toks |-> IF IsFloat(toks[k]) THEN FloatVal(toks[k]) ELSE 0]

processed_pace_of(raw_paces, num_points) ==
  LET toks == Prefix(raw_paces, num_points)
  IN IF \A k \in DOMAIN toks : IsFloat(toks[k])
       THEN [k \in DOMAIN toks |-> FloatVal(toks[k])]
       ELSE Repeat(0, num_points)

----------------------------------------------------------------------------
(* process_workout: heart-rate variance.  mean_diff is S / m, so the sum   *)
(* of the squares of d - mean_diff over m is the sum of (m d - S)^2 over   *)
(* m^3.                                                                    *)

SquaredDeviations(diffs) ==
  LET m == Len(diffs)
      S == SumSeq(diffs)
  IN SumSeq([k \in DOMAIN diffs |-> (m * diffs[k] - S) * (m * diffs[k] - S)])

hr_variance_with_first(hr_variations) ==
  IF Len(hr_variations) > 1
    THEN [num |-> SquaredDeviations(hr_variations),
          den |-> Len(hr_variations) * Len(hr_variations) * Len(hr_variations)]
    ELSE [num |-> 0, den |-> 1]

hr_variance_of(hr_variations) ==
  IF Len(hr_variations) > 1
    THEN LET diffs == Tail(hr_variations)
         IN [num |-> SquaredDeviations(diffs),
             den |-> Len(diffs) * Len(diffs) * Len(diffs)]
    ELSE [num |-> 0, den |-> 1]

----------------------------------------------------------------------------
(* process_workout: zone classification.  The bounds 0.5 M .. 1.0 M are    *)
(* held in tenths and compared with ten times the sample.                  *)

hr_max_theoretical == 196

\* Z1 (50-60%) .. Z5 (90-100%), in the order of the dictionary.
hr_zones ==
  <<[low |-> 5 * hr_max_theoretical, high |-> 6 * hr_max_theoretical],
    [low |-> 6 * hr_max_theoretical, high |-> 7 * hr_max_theoretical],
    [low |-> 7 * hr_max_theoretical, high |-> 8 * hr_max_theoretical],
    [low |-> 8 * hr_max_theoretical, high |-> 9 * hr_max_theoretical],
    [low |-> 9 * hr_max_theoretical, high |-> 10 * hr_max_theoretical]>>

in_zone_open_low(hr, z) == hr_zones[z].low < 10 * hr /\ 10 * hr < hr_zones[z].high

in_zone(hr, z) == hr_zones[z].low <= 10 * hr /\ 10 * hr < hr_zones[z].high

\* The zone the inner loop breaks on: the first that holds the sample; 0 for none.
RECURSIVE FirstZoneFrom(_, _)
FirstZoneFrom(hr, z) ==
  IF z > Len(hr_zones) THEN 0
  ELSE IF in_zone(hr, z) THEN z
  ELSE FirstZoneFrom(hr, z + 1)

zone_counts_of(current_hr) ==
  [z \in DOMAIN hr_zones |->
     Cardinality({k \in DOMAIN current_hr : FirstZoneFrom(current_hr[k], 1) = z})]

zone_percentages_of(zone_counts, num_points) ==
  [z \in DOMAIN zone_counts |-> [num |-> zone_counts[z] * 100, den |-> num_points]]

----------------------------------------------------------------------------
(* process_workout: effort/rest segmentation.                              *)

initial_state(processed_pace) == IF processed_pace[1] = 0 THEN "idle" ELSE "effort"

flush_none(state, duration, effort_durations, rest_durations) ==
  [effort_durations |-> effort_durations, rest_durations |-> rest_durations]

\* The flush after the loop.
flush(state, duration, effort_durations, rest_durations) ==
  IF state = "effort"
    THEN [effort_durations |-> Append(effort_durations, duration),
          rest_durations |-> rest_durations]
    ELSE [effort_durations |-> effort_durations,
          rest_durations |-> Append(rest_durations, duration)]

\* The loop over processed_pace, from sample k on.
RECURSIVE SegmentFrom(_, _, _, _, _, _)
SegmentFrom(pace, k, state, duration, effort_durations, rest_durations) ==
  IF k > Len(pace) THEN flush(state, duration, effort_durations, rest_durations)
  ELSE IF pace[k] > 0
    THEN IF state = "effort"
           THEN SegmentFrom(pace, k + 1, state, duration + 1, effort_durations, rest_durations)
           ELSE SegmentFrom(pace, k + 1, "effort", 1, effort_durations,
                            Append(rest_durations, duration))
    ELSE IF state = "idle"
           THEN SegmentFrom(pace, k + 1, state, duration + 1, effort_durations, rest_durations)
           ELSE SegmentFrom(pace, k + 1, "idle", 1, Append(effort_durations, duration),
                            rest_durations)

segment(processed_pace) ==
  SegmentFrom(processed_pace, 1, initial_state(processed_pace), 0, <<>>, <<>>)

\* sum(d) / len(d) if d else 0
average(durations) ==
  IF durations # <<>> THEN [num |-> SumSeq(durations), den |-> Len(durations)]
  ELSE [num |-> 0, den |-> 1]

percentage_moving_of(processed_pace, num_points) ==
  [num |-> Cardinality({k \in DOMAIN processed_pace : processed_pace[k] > 0}) * 100,
   den |-> num_points]

----------------------------------------------------------------------------
(* The detail responses get_workout_detail can return for one workout.     *)

\* Values of the "time" field.
TimeFields ==
  {None,
   <<>>,   \* 
   <<"1">>,   \* 1
   <<"1", ";", "2">>,   \* 1;2
   <<"1", ";", " ", ";", "2", ";", "3">>,   \* 1; ;2;3
   <<"1", ";", "2", ";", "3", ";", "5", ";", "7", ";", "0">>}   \* 1;2;3;5;7;0

\* Values of the "heart_rate" field.
HeartRateFields ==
  {None,
   <<>>,   \* 
   <<"0", ",", "7", "0">>,   \* 0,70
   <<"0", ",", "7", "0", ";", "1", ",", "5", ";", "2", ",", "-", "3">>,   \* 0,70;1,5;2,-3
   <<"0", ",", "7", "0", ";", "1", ",", "x", ";", "2", ",", "5">>,   \* 0,70;1,x;2,5
   <<"7", "0", ";", "1", ",", "5">>,   \* 70;1,5
   <<"0", ",", "9", "8", ";", "1", ",", "2", "0", ";", "2", ",", "7", "8">>,   \* 0,98;1,20;2,78
   <<"0", ",", "2", ";", "1", ",", "2", ";", "2", ",", "-", "2", ";", "3", ",", "2", ";", "4", ",", "-", "2", ";", "5", ",", "0">>}   \* 0,2;1,2;2,-2;3,2;4,-2;5,0

\* Values of the "pace" field.
PaceFields ==
  {None,
   <<>>,   \* 
   <<"0", ";", "0", ";", "5">>,   \* 0;0;5
   <<"1", ",", "5", ";", "2", ",", "5", ";", "0">>,   \* 1,5;2,5;0
   <<"5", ";", "x", ";", "5">>,   \* 5;x;5
   <<"-", "1", ";", "5">>,   \* -1;5
   <<"5", ";", "5", ";", "5", ";", "5">>,   \* 5;5;5;5
   <<"0", ";", "0", ";", "5", ";", "5", ";", "5", ";", "0">>}   \* 0;0;5;5;5;0

HTTPError == "HTTPError"

DetailResponses ==
  {[status |-> HTTPError]}
    \cup [status : {"ok"}, time : TimeFields, heart_rate : HeartRateFields, pace : PaceFields]

Fetched == {resp \in DetailResponses : resp.status = "ok"}

\* parse_times and parse_pace call a str method on the field: a null raises.
decode_raises(detail_data) == detail_data.time = None \/ detail_data.pace = None

Min3(a, b, c) == Min2(a, Min2(b, c))

num_points_of(raw_times, hr_values, raw_paces) ==
  Min3(Len(raw_times), Len(hr_values), Len(raw_paces))

\* generate_timestamps: start_time + 0 s, + 1 s, ...
generate_timestamps(count) == [k \in 1..count |-> k - 1]

\* The locals of process_workout up to the early return.
decoded(detail_data) ==
  LET raw_times == parse_times(detail_data.time)
      hr_values == parse_hr(detail_data.heart_rate)
      raw_paces == parse_pace(detail_data.pace)
  IN [raw_times |-> raw_times, hr_values |-> hr_values, raw_paces |-> raw_paces,
      num_points |-> num_points_of(raw_times, hr_values, raw_paces)]

\* The locals of process_workout at the call of export_csv.
computed(d) ==
  LET current_hr == current_hr_of(d.hr_values, d.num_points)
      hr_variations == hr_variations_of(d.hr_values, d.num_points)
      processed_pace == processed_pace_of(d.raw_paces, d.num_points)
      zone_counts == zone_counts_of(current_hr)
      runs == segment(processed_pace)
  IN [raw_times |-> d.raw_times, hr_values |-> d.hr_values,
      raw_paces |-> d.raw_paces, num_points |-> d.num_points,
      timestamps |-> generate_timestamps(d.num_points),
      current_hr |-> current_hr,
      hr_variations |-> hr_variations,
      processed_pace |-> processed_pace,
      hr_variance |-> hr_variance_of(hr_variations),
      zone_counts |-> zone_counts,
      zone_percentages |-> zone_percentages_of(zone_counts, d.num_points),
      effort_durations |-> runs.effort_durations,
      rest_durations |-> runs.rest_durations,
      avg_effort_duration |-> average(runs.effort_durations),
      avg_rest_duration |-> average(runs.rest_durations),
      percentage_moving |-> percentage_moving_of(processed_pace, d.num_points)]

\* What the decoders make of the responses they do not raise on.
DecodedDetails == {decoded(resp) : resp \in {r \in Fetched : ~decode_raises(r)}}

\* process_workout on the responses with no usable data, and on the others.
SkippedLocals == {d \in DecodedDetails : d.num_points = 0}

ExportedLocals == {computed(d) : d \in {e \in DecodedDetails : e.num_points > 0}}

----------------------------------------------------------------------------
(* main: the batch loop.  frame holds the locals of the latest call of     *)
(* process_workout, exported the track ids handed to export_csv, warned    *)
(* the track ids of the "No usable data" warnings, raised the track ids    *)
(* whose call raised.                                                      *)

Idle == args = NoCall /\ ret = NoCall

Init ==
  /\ pc = "start" /\ n = 0 /\ i = 0 /\ frame = NoFrame
  /\ exported = <<>> /\ warned = <<>> /\ raised = <<>>
  /\ Idle

\* get_workout_history raises (raise_for_status): main has no handler.
GetHistoryFails ==
  /\ pc = "start"
  /\ pc' = "crashed"
  /\ UNCHANGED <<n, i, frame, exported, warned, raised, args, ret>>

\* No workout passes the swimming filter: a warning, and main returns.
NoSwimming ==
  /\ pc = "start"
  /\ pc' = "done"
  /\ UNCHANGED <<n, i, frame, exported, warned, raised, args, ret>>

BeginBatch ==
  /\ pc = "start"
  /\ \E count \in 1..MaxBatch : n' = count
  /\ i' = 1
  /\ pc' = "loop"
  /\ UNCHANGED <<frame, exported, warned, raised, args, ret>>

\* Where the for loop of main stands after workout i returned.
after_return == IF i = n THEN "done" ELSE "loop"

\* get_workout_detail raises for workout i: the exception leaves process_workout
\* and main, which handle none.
DetailFails ==
  /\ pc = "loop"
  /\ \E resp \in DetailResponses : resp.status = HTTPError
  /\ frame' = [track_id |-> i, outcome |-> "raised", error |-> HTTPError]
  /\ raised' = Append(raised, i)
  /\ pc' = "crashed"
  /\ UNCHANGED <<n, i, exported, warned, args, ret>>

\* A decoder raises for workout i, the same way.
DecodeFails ==
  /\ pc = "loop"
  /\ \E resp \in Fetched : decode_raises(resp)
  /\ frame' = [track_id |-> i, outcome |-> "raised", error |-> "AttributeError"]
  /\ raised' = Append(raised, i)
  /\ pc' = "crashed"
  /\ UNCHANGED <<n, i, exported, warned, args, ret>>

\* num_points == 0: the warning and the early return.
SkipEmpty ==
  /\ pc = "loop"
  /\ \E d \in SkippedLocals : frame' = d @@ [track_id |-> i, outcome |-> "skipped"]
  /\ warned' = Append(warned, i)
  /\ i' = i + 1
  /\ pc' = after_return
  /\ UNCHANGED <<n, exported, raised, args, ret>>

\* The metrics and the call of export_csv.
Export ==
  /\ pc = "loop"
  /\ \E c \in ExportedLocals : frame' = c @@ [track_id |-> i, outcome |-> "exported"]
  /\ exported' = Append(exported, i)
  /\ i' = i + 1
  /\ pc' = after_return
  /\ UNCHANGED <<n, warned, raised, args, ret>>

Next == GetHistoryFails \/ NoSwimming \/ BeginBatch \/ DetailFails \/ DecodeFails
          \/ SkipEmpty \/ Export

Spec == Init /\ [][Next]_vars

----------------------------------------------------------------------------
(* The functions on their own: args holds the arguments of one call, ret   *)
(* what it returns.                                                        *)

MainIdle ==
  /\ n = 0 /\ i = 0 /\ frame = NoFrame
  /\ exported = <<>> /\ warned = <<>> /\ raised = <<>>

main_vars == <<n, i, frame, exported, warned, raised>>

\* parse_hr on every raw string over RawAlphabet of at most MaxRawLen characters.
RawAlphabet == {"7", "-", ",", ";", "x"}

InitParseHr ==
  /\ pc = "call" /\ MainIdle /\ ret = NoCall
  /\ args \in [fn : {"parse_hr"}, hr_str : SeqsUpTo(RawAlphabet, MaxRawLen)]

CallParseHr ==
  /\ pc = "call"
  /\ ret' = [fn |-> "parse_hr", hr_values |-> parse_hr(args.hr_str)]
  /\ pc' = "return"
  /\ UNCHANGED <<args, main_vars>>

SpecParseHr == InitParseHr /\ [][CallParseHr]_vars

\* Lines 212-239 of process_workout on every token sequence over HrTokens of at
\* most MaxHrLen tokens and every target length up to MaxTarget.
HrTokens == {70, 5, -3, 2, -2}

InitHeartRate ==
  /\ pc = "call" /\ MainIdle /\ ret = NoCall
  /\ args \in [fn : {"heart_rate"}, hr_values : SeqsUpTo(HrTokens, MaxHrLen),
               num_points : 1..MaxTarget]

CallHeartRate ==
  /\ pc = "call"
  /\ LET hr_variations == hr_variations_of(args.hr_values, args.num_points)
     IN ret' = [fn |-> "heart_rate",
                current_hr |-> current_hr_of(args.hr_values, args.num_points),
                hr_variations |-> hr_variations,
                hr_variance |-> hr_variance_of(hr_variations)]
  /\ pc' = "return"
  /\ UNCHANGED <<args, main_vars>>

SpecHeartRate == InitHeartRate /\ [][CallHeartRate]_vars

\* Lines 241-254 of process_workout on every series of at most MaxSamples samples
\* taken at and around the zone bounds.
ZoneSamples == {-5, 0, 97, 98, 117, 118, 137, 138, 156, 157, 176, 177, 195, 196, 250}

InitZones ==
  /\ pc = "call" /\ MainIdle /\ ret = NoCall
  /\ args \in [fn : {"zones"}, current_hr : SeqsUpTo(ZoneSamples, MaxSamples) \ {<<>>}]

CallZones ==
  /\ pc = "call"
  /\ LET zone_counts == zone_counts_of(args.current_hr)
     IN ret' = [fn |-> "zones", zone_counts |-> zone_counts,
                zone_percentages |->
                  zone_percentages_of(zone_counts, Len(args.current_hr))]
  /\ pc' = "return"
  /\ UNCHANGED <<args, main_vars>>

SpecZones == InitZones /\ [][CallZones]_vars

\* Lines 256-281 of process_workout on every pace series over PaceValues of at
\* most MaxPaceLen samples.
PaceValues == {-1, 0, 5}

InitSegment ==
  /\ pc = "call" /\ MainIdle /\ ret = NoCall
  /\ args \in [fn : {"segment"}, processed_pace : SeqsUpTo(PaceValues, MaxPaceLen) \ {<<>>}]

CallSegment ==
  /\ pc = "call"
  /\ LET runs == segment(args.processed_pace)
     IN ret' = [fn |-> "segment",
                effort_durations |-> runs.effort_durations,
                rest_durations |-> runs.rest_durations,
                avg_effort_duration |-> average(runs.effort_durations),
                avg_rest_duration |-> average(runs.rest_durations)]
  /\ pc' = "return"
  /\ UNCHANGED <<args, main_vars>>

SpecSegment == InitSegment /\ [][CallSegment]_vars

----------------------------------------------------------------------------
(* Vocabulary of the properties: intervals of positions of a sequence.     *)

Intervals(s) == {iv \in (DOMAIN s) \X (DOMAIN s) : iv[1] <= iv[2]}

\* The k-th interval of a set of disjoint intervals, by position.
NthInterval(S, k) == CHOOSE iv \in S : Cardinality({j \in S : j[1] < iv[1]}) = k - 1

LengthsInOrder(S) ==
  [k \in 1..Cardinality(S) |-> NthInterval(S, k)[2] - NthInterval(S, k)[1] + 1]

\* The maximal intervals of s all of whose elements satisfy Holds.
MaximalRuns(s, Holds(_)) ==
  {iv \in Intervals(s) :
     /\ \A k \in iv[1]..iv[2] : Holds(s[k])
     /\ iv[1] = 1 \/ ~Holds(s[iv[1] - 1])
     /\ iv[2] = Len(s) \/ ~Holds(s[iv[2] + 1])}

IsMoving(p) == p > 0

IsStill(p) == p = 0

NotSemicolon(c) == c # ";"

----------------------------------------------------------------------------
(* Heart-rate reconstruction and variance, under SpecHeartRate.            *)

\* C1: for a non-empty token sequence h and a target length T >= 1 the absolute
\* series has T elements, starts with h[0], adds h[i] to the element before for
\* 0 < i < min(len(h), T), and repeats the last computed element from index
\* len(h) on; [70, 5, -3] with T = 5 gives [70, 75, 72, 72, 72].
C1_Reconstruction ==
  (pc = "return" /\ args.hr_values # <<>>) =>
    LET h == args.hr_values
        T == args.num_points
        c == ret.current_hr
    IN /\ Len(c) = T
       /\ c[1] = h[1]
       /\ \A k \in 2..Min2(Len(h), T) : c[k] = c[k - 1] + h[k]
       /\ \A k \in (Len(h) + 1)..T : c[k] = c[Len(h)]
       /\ (h = <<70, 5, -3>> /\ T = 5) => c = <<70, 75, 72, 72, 72>>

C1_Witness ==
  /\ pc = "return"
  /\ args.hr_values = <<70, 5, -3>> /\ args.num_points = 5
  /\ ret.current_hr = <<70, 75, 72, 72, 72>>

\* C9: hr_variance is the population variance of the variation series without
\* its first element (the mean of the squares less the square of the mean), 0
\* when fewer than 2 deltas remain; [0, 2, -2, 2, -2] gives 4.
C9_Variance ==
  pc = "return" =>
    LET diffs == Tail(ret.hr_variations)
        m == Len(diffs)
        S == SumSeq(diffs)
        Q == SumSeq([k \in DOMAIN diffs |-> diffs[k] * diffs[k]])
        v == ret.hr_variance
    IN /\ v.den > 0
       /\ m < 2 => v.num = 0
       /\ m >= 1 => v.num * m * m = v.den * (m * Q - S * S)
       /\ ret.hr_variations = <<0, 2, -2, 2, -2>> => v.num = 4 * v.den

C9_Witness ==
  /\ pc = "return"
  /\ ret.hr_variations = <<0, 2, -2, 2, -2>>
  /\ ret.hr_variance.num = 4 * ret.hr_variance.den

----------------------------------------------------------------------------
(* Effort/rest segmentation, under SpecSegment.                            *)

\* C2: for a non-empty pace series of non-negative values effort_durations
\* lists, in order, the lengths of the maximal runs with pace > 0 and
\* rest_durations those of the maximal runs with pace == 0, the open run
\* included; [0,0,5,5,5,0] gives rest [2,1] and effort [3] (averages 1.5 and 3),
\* an all-positive series of length N effort [N], rest [] and average rest 0.
C2_RunLengths ==
  (pc = "return" /\ \A k \in DOMAIN args.processed_pace : args.processed_pace[k] >= 0) =>
    LET p == args.processed_pace IN
      /\ ret.effort_durations = LengthsInOrder(MaximalRuns(p, IsMoving))
      /\ ret.rest_durations = LengthsInOrder(MaximalRuns(p, IsStill))
      /\ p = <<0, 0, 5, 5, 5, 0>> =>
           /\ ret.rest_durations = <<2, 1>> /\ ret.effort_durations = <<3>>
           /\ ret.avg_effort_duration.num = 3 * ret.avg_effort_duration.den
           /\ 2 * ret.avg_rest_duration.num = 3 * ret.avg_rest_duration.den
      /\ (\A k \in DOMAIN p : p[k] > 0) =>
           /\ ret.effort_durations = <<Len(p)>> /\ ret.rest_durations = <<>>
           /\ ret.avg_rest_duration.num = 0

C2_Witness ==
  /\ pc = "return"
  /\ args.processed_pace = <<0, 0, 5, 5, 5, 0>>
  /\ ret.rest_durations = <<2, 1>> /\ ret.effort_durations = <<3>>

----------------------------------------------------------------------------
(* Zone classification, under SpecZones.                                   *)

\* C4: with M the theoretical maximum, a sample counts in exactly the one band
\* among [50,60)%, ..., [90,100)% of M that holds it and in none below 50% or from
\* 100% of M on; a zone's percentage is its count over the number of samples
\* times 100, so the five sum to at most 100, and to 0 when every sample lies
\* outside the bands.
C4_ZoneClassification ==
  pc = "return" =>
    LET c == args.current_hr
        M == hr_max_theoretical
        total == Len(c)
        InBand(hr, z) == (40 + 10 * z) * M <= 100 * hr /\ 100 * hr < (50 + 10 * z) * M
        Bands(hr) == {z \in 1..5 : InBand(hr, z)}
        Outside(hr) == 100 * hr < 50 * M \/ 100 * hr >= 100 * M
        pct == ret.zone_percentages
    IN /\ DOMAIN ret.zone_counts = 1..5
       /\ \A k \in DOMAIN c : Cardinality(Bands(c[k])) = IF Outside(c[k]) THEN 0 ELSE 1
       /\ \A z \in 1..5 :
            /\ ret.zone_counts[z] = Cardinality({k \in DOMAIN c : z \in Bands(c[k])})
            /\ pct[z].den = total
            /\ pct[z].num = ret.zone_counts[z] * 100
       /\ SumSeq([z \in 1..5 |-> pct[z].num]) <= 100 * total
       /\ (\A k \in DOMAIN c : Outside(c[k])) => SumSeq([z \in 1..5 |-> pct[z].num]) = 0

C4_Witness ==
  /\ pc = "return"
  /\ args.current_hr = <<98, 196, 137>>
  /\ ret.zone_counts = <<1, 1, 0, 0, 0>>

----------------------------------------------------------------------------
(* parse_hr, under SpecParseHr.                                            *)

\* The non-empty ';'-delimited segments of a raw string, as intervals.
Segments(s) == MaximalRuns(s, NotSemicolon)

HasComma(s, iv) == \E k \in iv[1]..iv[2] : s[k] = ","

\* The second ','-delimited field of a segment that has a comma.
SecondField(s, iv) ==
  LET commas == {k \in iv[1]..iv[2] : s[k] = ","}
      first == CHOOSE k \in commas : \A j \in commas : k <= j
      later == commas \ {first}
      last == IF later = {} THEN iv[2]
              ELSE (CHOOSE k \in later : \A j \in later : k <= j) - 1
  IN SubSeq(s, first + 1, last)

\* The integer of a segment: its second field as an integer, 0 when malformed.
TokenValue(s, iv) ==
  IF HasComma(s, iv) /\ IsInt(SecondField(s, iv)) THEN IntVal(SecondField(s, iv)) ELSE 0

ValuesInOrder(s, S) == [k \in 1..Cardinality(S) |-> TokenValue(s, NthInterval(S, k))]

----------------------------------------------------------------------------
(* The batch and the series handed to export_csv, under Spec.              *)

Processed == Range(exported) \cup Range(warned) \cup Range(raised)

Terminated == pc \in {"done", "crashed"}

\* C3: a failure of the detail retrieval or of the decoding of one workout is
\* confined to that workout: the process does not end with an error, and every
\* later workout of the batch is processed.
C3_BatchIsolation ==
  \A k \in Range(raised) :
    /\ pc # "crashed"
    /\ Terminated => \A j \in (k + 1)..n : j \in Processed

\* C7: a workout whose common prefix length is 0 gets a warning, no report and
\* no metrics; main goes on to process every remaining workout of the batch, and
\* the reports come in the order of the batch.
C7_EmptySkipContinues ==
  /\ frame.outcome = "skipped" =>
       /\ frame.num_points = 0
       /\ frame.track_id \in Range(warned) \ Range(exported)
       /\ "current_hr" \notin DOMAIN frame
  /\ \A a, b \in DOMAIN exported : a < b => exported[a] < exported[b]
  /\ Terminated => \A k \in Range(warned) : \A j \in (k + 1)..n : j \in Processed

\* C6: when one of the first num_points pace tokens is no number the whole pace
\* series is num_points zeros and the workout still reaches export_csv; when all
\* are numbers the series is their values in order.
C6_PaceFallback ==
  (frame.outcome \in {"exported", "skipped"} /\ frame.num_points > 0) =>
    LET toks == Prefix(frame.raw_paces, frame.num_points)
        bad == {k \in DOMAIN toks : ~IsFloat(toks[k])}
    IN /\ frame.outcome = "exported"
       /\ Len(frame.processed_pace) = frame.num_points
       /\ bad # {} => \A k \in DOMAIN frame.processed_pace : frame.processed_pace[k] = 0
       /\ bad = {} => \A k \in DOMAIN toks : frame.processed_pace[k] = FloatVal(toks[k])

\* One workout showing both policies: the malformed heart-rate token alone is 0,
\* the pace series is 0 throughout.
C6_Witness ==
  /\ frame.outcome = "exported"
  /\ frame.hr_values = <<70, 0, 5>>
  /\ frame.raw_paces = <<<<"5">>, <<"x">>, <<"5">>>>
  /\ frame.num_points = 3
  /\ frame.processed_pace = <<0, 0, 0>>

\* C8: the four series handed to export_csv have the common prefix length
\* num_points = min of the three decoded lengths; hr_variations[0] is 0 and
\* hr_variations[i], i > 0, is the delta token current_hr[i] was built with.
C8_AlignedSeries ==
  frame.outcome = "exported" =>
    LET np == Min3(Len(frame.raw_times), Len(frame.hr_values), Len(frame.raw_paces)) IN
      /\ frame.num_points = np
      /\ Len(frame.timestamps) = np
      /\ Len(frame.hr_variations) = np
      /\ Len(frame.current_hr) = np
      /\ Len(frame.processed_pace) = np
      /\ frame.hr_variations[1] = 0
      /\ \A k \in 2..np :
           /\ frame.hr_variations[k] = frame.hr_values[k]
           /\ frame.current_hr[k] = frame.current_hr[k - 1] + frame.hr_variations[k]

C8_Witness ==
  /\ frame.outcome = "exported"
  /\ frame.num_points = 3
  /\ Len(frame.raw_times) = 6 /\ Len(frame.hr_values) = 6 /\ Len(frame.raw_paces) = 3
  /\ frame.hr_variations = <<0, 2, -2>>
  /\ frame.current_hr = <<2, 4, 2>>

\* C10: for every pace series the decoder can produce, negative values included,
\* every recorded run has length >= 1 and the runs sum to the number of samples.
C10_RunPartition ==
  frame.outcome = "exported" =>
    /\ \A k \in DOMAIN frame.effort_durations : frame.effort_durations[k] >= 1
    /\ \A k \in DOMAIN frame.rest_durations : frame.rest_durations[k] >= 1
    /\ SumSeq(frame.effort_durations) + SumSeq(frame.rest_durations) = frame.num_points

====
